---- MODULE Spec2Model ----
(***************************************************************************)
(* Model of src/src/ol/tilegrid.js (module ol/tilegrid): the resolution    *)
(* pyramid, the extent resolver, the three grid factories, the default     *)
(* grid cache and the horizontal tile coordinate wrapper.                  *)
(*                                                                         *)
(* Numbers are exact rationals <<n, d>> (d > 0, in lowest terms), so that  *)
(* a division is a division and not the identity.  An optional value       *)
(* (undefined / null in the source) is a sequence: <<>> is "undefined".    *)
(* A tile size is <<n>> (a number) or <<w, h>> (an array).                 *)
(***************************************************************************)
EXTENDS Integers, Sequences, FiniteSets, TLC

VARIABLES
  nextId,           \* number of TileGrid instances constructed so far
  defaultTileGrid,  \* per projection: its default-grid slot, <<>> or <<grid>>
  firstReturned,    \* per projection: id of the grid the first getForProjection returned (0: none)
  call,             \* the call a caller is about to make: function and arguments
  last              \* the latest call made: its name, its arguments and what it returned

vars == <<nextId, defaultTileGrid, firstReturned, call, last>>

---------------------------------------------------------------------------
(* Bounds of the model *)

MaxGrids == 3
MaxZ == 2
MaxCol == 2

---------------------------------------------------------------------------
(* JavaScript number arithmetic, on exact rationals *)

Abs(n) == IF n < 0 THEN -n ELSE n

RECURSIVE GCD(_, _)
GCD(a, b) == IF b = 0 THEN a ELSE GCD(b, a % b)

\* n / d for integers n, d with d # 0, in lowest terms with a positive denominator
Rat(n, d) ==
  LET s == IF d < 0 THEN -1 ELSE 1
      g == GCD(Abs(n), Abs(d))
  IN  <<(s * n) \div g, (s * d) \div g>>

RInt(n) == <<n, 1>>
RAdd(a, b) == Rat(a[1] * b[2] + b[1] * a[2], a[2] * b[2])
RSub(a, b) == Rat(a[1] * b[2] - b[1] * a[2], a[2] * b[2])
RMul(a, b) == Rat(a[1] * b[1], a[2] * b[2])
RDiv(a, b) == Rat(a[1] * b[2], a[2] * b[1])
RNeg(a) == <<-a[1], a[2]>>
RLe(a, b) == a[1] * b[2] <= b[1] * a[2]
RLt(a, b) == a[1] * b[2] < b[1] * a[2]
\* Math.max
RMax(a, b) == IF RLe(a, b) THEN b ELSE a
\* Math.ceil and Math.floor, as integers
RCeil(a) == -((-a[1]) \div a[2])
RFloor(a) == a[1] \div a[2]

\* Math.pow(2, z)
RECURSIVE Pow2(_)
Pow2(z) == IF z = 0 THEN 1 ELSE 2 * Pow2(z - 1)

---------------------------------------------------------------------------
(* Collaborators: constants, sizes, extents, projections *)

\* ol/tilegrid/common.js.  The source's value (42) is scaled down: 2^42 is
\* beyond TLC's 32-bit integers.
DEFAULT_MAX_ZOOM == 2
DEFAULT_TILE_SIZE == 256

\* METERS_PER_UNIT[Units.DEGREES] = 2 * PI * 6370997 / 360, to the metre
MetersPerDegree == 111195

\* ol/size.js toSize: a number n becomes [n, n], an array is itself
toSize(size) == IF Len(size) = 2 THEN size ELSE <<size[1], size[1]>>

\* ol/extent.js
Extent(minx, miny, maxx, maxy) == <<RInt(minx), RInt(miny), RInt(maxx), RInt(maxy)>>
createOrUpdate(minx, miny, maxx, maxy) == <<minx, miny, maxx, maxy>>
getWidth(extent) == RSub(extent[3], extent[1])
getHeight(extent) == RSub(extent[4], extent[2])
containsCoordinate(extent, c) ==
  /\ RLe(extent[1], c[1]) /\ RLe(c[1], extent[3])
  /\ RLe(extent[2], c[2]) /\ RLe(c[2], extent[4])

Corners == {"bottom-left", "bottom-right", "top-left", "top-right"}
getCorner(extent, corner) ==
  CASE corner = "bottom-left"  -> <<extent[1], extent[2]>>
    [] corner = "bottom-right" -> <<extent[3], extent[2]>>
    [] corner = "top-left"     -> <<extent[1], extent[4]>>
    [] corner = "top-right"    -> <<extent[3], extent[4]>>

\* ol/proj.js: the registry.  A projection is named by its code; getExtent()
\* is <<>> (null) or <<extent>>; getMetersPerUnit() is a rational.
\* EPSG3857 stands for 'EPSG:3857', in units of an eighth of its half-width.
ProjectionRegistry ==
  [ EPSG3857    |-> [extent |-> <<Extent(-8, -8, 8, 8)>>, metersPerUnit |-> RInt(2504688)],
    wide        |-> [extent |-> <<Extent(-4, -2, 4, 2)>>, metersPerUnit |-> RInt(1)],
    tall        |-> [extent |-> <<Extent(0, 0, 1, 4)>>,   metersPerUnit |-> RInt(1)],
    global      |-> [extent |-> <<>>, metersPerUnit |-> RInt(60 * MetersPerDegree)],
    odd         |-> [extent |-> <<>>, metersPerUnit |-> RInt(72 * MetersPerDegree)] ]

Projections == DOMAIN ProjectionRegistry
\* get(projectionLike): an instance passes through
getProjection(projection) == projection
getExtent(projection) == ProjectionRegistry[projection].extent
getMetersPerUnit(projection) == ProjectionRegistry[projection].metersPerUnit

---------------------------------------------------------------------------
(* ol/tilegrid.js: the pure functions *)

\* mutant: Math.min for Math.max
resolutionsFromExtent_min(extent, opt_maxZoom, opt_tileSize) ==
  LET maxZoom == IF opt_maxZoom # <<>> THEN opt_maxZoom[1] ELSE DEFAULT_MAX_ZOOM
      height == getHeight(extent)
      width == getWidth(extent)
      tileSize == toSize(IF opt_tileSize # <<>> THEN opt_tileSize ELSE <<DEFAULT_TILE_SIZE>>)
      a == RDiv(width, RInt(tileSize[1]))
      b == RDiv(height, RInt(tileSize[2]))
      maxResolution == IF RLe(a, b) THEN a ELSE b
      length == maxZoom + 1
  IN  [i \in 1..length |-> RDiv(maxResolution, RInt(Pow2(i - 1)))]

resolutionsFromExtent(extent, opt_maxZoom, opt_tileSize) ==
  LET maxZoom == IF opt_maxZoom # <<>> THEN opt_maxZoom[1] ELSE DEFAULT_MAX_ZOOM
      height == getHeight(extent)
      width == getWidth(extent)
      tileSize == toSize(IF opt_tileSize # <<>> THEN opt_tileSize ELSE <<DEFAULT_TILE_SIZE>>)
      maxResolution == RMax(RDiv(width, RInt(tileSize[1])), RDiv(height, RInt(tileSize[2])))
      length == maxZoom + 1
  IN  [i \in 1..length |-> RDiv(maxResolution, RInt(Pow2(i - 1)))]

\* mutant: the whole 360 degrees taken for the half
extentFromProjection_360(projection) ==
  LET p == getProjection(projection)
      extent == getExtent(p)
      half == RDiv(RMul(RInt(360), RInt(MetersPerDegree)), getMetersPerUnit(p))
  IN  IF extent = <<>>
        THEN createOrUpdate(RNeg(half), RNeg(half), half, half)
        ELSE extent[1]

extentFromProjection(projection) ==
  LET p == getProjection(projection)
      extent == getExtent(p)
      half == RDiv(RMul(RInt(180), RInt(MetersPerDegree)), getMetersPerUnit(p))
  IN  IF extent = <<>>
        THEN createOrUpdate(RNeg(half), RNeg(half), half, half)
        ELSE extent[1]

---------------------------------------------------------------------------
(* Objects: a function from the names of the properties present to values *)

EmptyObject == [k \in {} |-> 0]
\* ol/obj.js assign: the source's own properties override the target's
assign(target, source) ==
  [k \in DOMAIN target \cup DOMAIN source |->
     IF k \in DOMAIN source THEN source[k] ELSE target[k]]
SetProp(o, k, v) == [j \in DOMAIN o \cup {k} |-> IF j = k THEN v ELSE o[j]]
DeleteProp(o, k) == [j \in DOMAIN o \ {k} |-> o[j]]
\* reading o.k: <<>> (undefined) when absent, else <<value>>
Prop(o, k) == IF k \in DOMAIN o THEN <<o[k]>> ELSE <<>>
\* reading o.tileSize, a tile size being a sequence already
TileSizeProp(o) == IF "tileSize" \in DOMAIN o THEN o["tileSize"] ELSE <<>>

---------------------------------------------------------------------------
(* ol/tilegrid/TileGrid.js: the grid, an affine tiling per zoom level *)

\* new TileGrid(options): origin defaults to the extent's top-left corner,
\* tileSize to DEFAULT_TILE_SIZE
TileGrid(id, options) ==
  [ id          |-> id,
    extent      |-> options["extent"],
    origin      |-> IF "origin" \in DOMAIN options
                      THEN options["origin"]
                      ELSE getCorner(options["extent"], "top-left"),
    resolutions |-> options["resolutions"],
    tileSize    |-> IF TileSizeProp(options) # <<>>
                      THEN TileSizeProp(options)
                      ELSE <<DEFAULT_TILE_SIZE>> ]

\* the map width and height of one tile at zoom z
TileSpan(grid, z) ==
  LET ts == toSize(grid.tileSize)
      res == grid.resolutions[z + 1]
  IN  <<RMul(RInt(ts[1]), res), RMul(RInt(ts[2]), res)>>

getTileCoordCenter(grid, tileCoord) ==
  LET span == TileSpan(grid, tileCoord[1])
  IN  << RAdd(grid.origin[1], RMul(Rat(2 * tileCoord[2] + 1, 2), span[1])),
         RAdd(grid.origin[2], RMul(Rat(2 * tileCoord[3] + 1, 2), span[2])) >>

getTileCoordForCoordAndZ(grid, coordinate, z) ==
  LET span == TileSpan(grid, z)
  IN  << z,
         RFloor(RDiv(RSub(coordinate[1], grid.origin[1]), span[1])),
         RFloor(RDiv(RSub(coordinate[2], grid.origin[2]), span[2])) >>

---------------------------------------------------------------------------
(* ol/tilegrid.js: the factories (the options handed to new TileGrid) *)

\* mutant: the default createForProjection documents
createForExtentDefaultCorner_documented == "bottom-left"

\* Corner.TOP_LEFT, the default of line 61
createForExtentDefaultCorner == "top-left"

createForExtent(extent, opt_maxZoom, opt_tileSize, opt_corner) ==
  LET corner == IF opt_corner # <<>> THEN opt_corner[1] ELSE createForExtentDefaultCorner
      resolutions == resolutionsFromExtent(extent, opt_maxZoom, opt_tileSize)
  IN  [ extent      |-> extent,
        origin      |-> getCorner(extent, corner),
        resolutions |-> resolutions,
        tileSize    |-> opt_tileSize ]

createForProjection(projection, opt_maxZoom, opt_tileSize, opt_corner) ==
  LET extent == extentFromProjection(projection)
  IN  createForExtent(extent, opt_maxZoom, opt_tileSize, opt_corner)

\* mutant: the statements write to the caller's object
createXYZTarget_caller == "opt_options"

\* the object the statements of createXYZ write to: the fresh object of
\* line 82, named options
createXYZTarget == "options"

\* mutant: maxZoom is not deleted
createXYZ_keepsMaxZoom(opt_options) ==
  LET source == IF opt_options # <<>> THEN opt_options[1] ELSE EmptyObject
      o1 == assign(EmptyObject, source)
      o2 == IF Prop(o1, "extent") = <<>>
              THEN SetProp(o1, "extent", getExtent("EPSG3857")[1])
              ELSE o1
      o3 == SetProp(o2, "resolutions",
              resolutionsFromExtent(o2["extent"], Prop(o2, "maxZoom"), TileSizeProp(o2)))
  IN  [opt_options |-> source, options |-> o3]

\* the two objects createXYZ sees, after its last statement
createXYZ(opt_options) ==
  LET source == IF opt_options # <<>> THEN opt_options[1] ELSE EmptyObject
      t == createXYZTarget
      s0 == [opt_options |-> source, options |-> EmptyObject]
      s1 == [s0 EXCEPT ![t] = assign(s0[t], source)]
      s2 == IF Prop(s1[t], "extent") = <<>>
              THEN [s1 EXCEPT ![t] = SetProp(s1[t], "extent", getExtent("EPSG3857")[1])]
              ELSE s1
      s3 == [s2 EXCEPT ![t] = SetProp(s2[t], "resolutions",
                resolutionsFromExtent(s2[t]["extent"], Prop(s2[t], "maxZoom"),
                                      TileSizeProp(s2[t])))]
      s4 == [s3 EXCEPT ![t] = DeleteProp(s3[t], "maxZoom")]
  IN  [opt_options |-> s4["opt_options"], options |-> s4[t]]

---------------------------------------------------------------------------
(* ol/tilegrid.js: wrapX and getForProjection *)

\* mutant: Math.floor for Math.ceil
wrapX_floor(tileGrid, tileCoord, projection) ==
  LET z == tileCoord[1]
      center == getTileCoordCenter(tileGrid, tileCoord)
      projectionExtent == extentFromProjection(projection)
      worldWidth == getWidth(projectionExtent)
      worldsAway == RFloor(RDiv(RSub(projectionExtent[1], center[1]), worldWidth))
      shifted == <<RAdd(center[1], RMul(worldWidth, RInt(worldsAway))), center[2]>>
  IN  IF ~containsCoordinate(projectionExtent, center)
        THEN [ tileCoord  |-> getTileCoordForCoordAndZ(tileGrid, shifted, z),
               recomputed |-> TRUE,
               center     |-> shifted ]
        ELSE [ tileCoord  |-> tileCoord,
               recomputed |-> FALSE,
               center     |-> center ]

\* mutant: a center on the boundary of the extent counts as outside
wrapX_open(tileGrid, tileCoord, projection) ==
  LET z == tileCoord[1]
      center == getTileCoordCenter(tileGrid, tileCoord)
      projectionExtent == extentFromProjection(projection)
      worldWidth == getWidth(projectionExtent)
      worldsAway == RCeil(RDiv(RSub(projectionExtent[1], center[1]), worldWidth))
      shifted == <<RAdd(center[1], RMul(worldWidth, RInt(worldsAway))), center[2]>>
      strictlyInside ==
        /\ RLt(projectionExtent[1], center[1]) /\ RLt(center[1], projectionExtent[3])
        /\ RLt(projectionExtent[2], center[2]) /\ RLt(center[2], projectionExtent[4])
  IN  IF ~strictlyInside
        THEN [ tileCoord  |-> getTileCoordForCoordAndZ(tileGrid, shifted, z),
               recomputed |-> TRUE,
               center     |-> shifted ]
        ELSE [ tileCoord  |-> tileCoord,
               recomputed |-> FALSE,
               center     |-> center ]

\* mutant: the center is wrapped vertically as well
wrapX_rows(tileGrid, tileCoord, projection) ==
  LET z == tileCoord[1]
      center == getTileCoordCenter(tileGrid, tileCoord)
      projectionExtent == extentFromProjection(projection)
      worldWidth == getWidth(projectionExtent)
      worldHeight == getHeight(projectionExtent)
      worldsAway == RCeil(RDiv(RSub(projectionExtent[1], center[1]), worldWidth))
      worldsBelow == RCeil(RDiv(RSub(projectionExtent[2], center[2]), worldHeight))
      shifted == << RAdd(center[1], RMul(worldWidth, RInt(worldsAway))),
                    RAdd(center[2], RMul(worldHeight, RInt(worldsBelow))) >>
  IN  IF ~containsCoordinate(projectionExtent, center)
        THEN [ tileCoord  |-> getTileCoordForCoordAndZ(tileGrid, shifted, z),
               recomputed |-> TRUE,
               center     |-> shifted ]
        ELSE [ tileCoord  |-> tileCoord,
               recomputed |-> FALSE,
               center     |-> center ]

\* what wrapX returns, whether it took the recomputing branch, and the
\* center it ended with
wrapX(tileGrid, tileCoord, projection) ==
  LET z == tileCoord[1]
      center == getTileCoordCenter(tileGrid, tileCoord)
      projectionExtent == extentFromProjection(projection)
      worldWidth == getWidth(projectionExtent)
      worldsAway == RCeil(RDiv(RSub(projectionExtent[1], center[1]), worldWidth))
      shifted == <<RAdd(center[1], RMul(worldWidth, RInt(worldsAway))), center[2]>>
  IN  IF ~containsCoordinate(projectionExtent, center)
        THEN [ tileCoord  |-> getTileCoordForCoordAndZ(tileGrid, shifted, z),
               recomputed |-> TRUE,
               center     |-> shifted ]
        ELSE [ tileCoord  |-> tileCoord,
               recomputed |-> FALSE,
               center     |-> center ]

\* mutant: the slot is not read, a grid is made and stored at every call
getForProjection_uncached(slot, projection, id) ==
  LET tileGrid == TileGrid(id, createForProjection(projection, <<>>, <<>>, <<>>))
  IN  [tileGrid |-> tileGrid, slot |-> <<tileGrid>>, constructed |-> 1]

\* getForProjection on a projection whose slot holds `slot`, the next new
\* TileGrid getting the identity `id`: the grid returned, the slot afterwards
\* and the number of grids constructed
getForProjection(slot, projection, id) ==
  IF slot = <<>>
    THEN LET tileGrid == TileGrid(id, createForProjection(projection, <<>>, <<>>, <<>>))
         IN  [tileGrid |-> tileGrid, slot |-> <<tileGrid>>, constructed |-> 1]
    ELSE [tileGrid |-> slot[1], slot |-> slot, constructed |-> 0]

---------------------------------------------------------------------------
(* The arguments callers pass *)

MaxZooms == {<<>>} \cup {<<m>> : m \in 0..MaxZ}
TileSizes == {<<>>, <<2>>, <<1, 2>>, <<3, 1>>}
OptCorners == {<<>>} \cup {<<c>> : c \in Corners}

\* the extents of the registry, one that is neither square nor 2:1, and a
\* degenerate one (zero width)
Extents ==
  {extentFromProjection(p) : p \in Projections}
    \cup {Extent(-3, -1, 2, 1), Extent(1, 0, 1, 2)}

PositiveExtents ==
  {e \in Extents : RLt(RInt(0), getWidth(e)) /\ RLt(RInt(0), getHeight(e))}

\* the options objects callers own: each of extent, maxZoom, tileSize present or not
XYZOptions ==
  { assign(assign(e, m), t) :
      e \in {EmptyObject} \cup {[extent |-> x] : x \in PositiveExtents},
      m \in {EmptyObject} \cup {[maxZoom |-> z] : z \in 0..MaxZ},
      t \in {EmptyObject} \cup {[tileSize |-> x] : x \in TileSizes \ {<<>>}} }

OptXYZOptions == {<<>>} \cup {<<o>> : o \in XYZOptions}

\* the grids handed to wrapX: built by the factories, with positive resolutions
WrapGrids ==
  {TileGrid(1, createForExtent(e, <<>>, t, c)) :
      e \in PositiveExtents, t \in TileSizes, c \in OptCorners}
    \cup {TileGrid(1, createXYZ(<<o>>).options) : o \in {EmptyObject, [tileSize |-> <<1, 2>>]}}

TileCoords == {<<z, x, y>> : z \in 0..MaxZ, x \in (-MaxCol)..MaxCol, y \in (-MaxCol)..(MaxCol - 1)}

Calls ==
  {[fn |-> "resolutionsFromExtent", extent |-> e, maxZoom |-> m, tileSize |-> t] :
      e \in Extents, m \in MaxZooms, t \in TileSizes}
    \cup {[fn |-> "extentFromProjection", projection |-> p] : p \in Projections}
    \cup {[fn |-> "createForExtent", extent |-> e, maxZoom |-> m, tileSize |-> t, corner |-> c] :
            e \in Extents, m \in MaxZooms, t \in TileSizes, c \in OptCorners}
    \cup {[fn |-> "createForProjection", projection |-> p, maxZoom |-> m, tileSize |-> t,
           corner |-> c] :
            p \in Projections, m \in MaxZooms, t \in TileSizes, c \in OptCorners}
    \cup {[fn |-> "createXYZ", options |-> o] : o \in OptXYZOptions}
    \cup {[fn |-> "wrapX", tileGrid |-> g, tileCoord |-> tc, projection |-> p] :
            g \in WrapGrids, tc \in {c \in TileCoords : c[1] < DEFAULT_MAX_ZOOM + 1},
            p \in Projections}

---------------------------------------------------------------------------
(* The calls *)

NoCall == [op |-> "none"]

Fresh ==
  /\ nextId = 0
  /\ defaultTileGrid = [p \in Projections |-> <<>>]
  /\ firstReturned = [p \in Projections |-> 0]
  /\ last = NoCall

\* one call of a function of its arguments alone
Init == Fresh /\ call \in Calls

\* a caller that calls getForProjection again and again
InitCache == Fresh /\ call = [fn |-> "getForProjection"]

Ready(fn) == call.fn = fn /\ last = NoCall

CallResolutionsFromExtent ==
  /\ Ready("resolutionsFromExtent")
  /\ last' = [ op |-> "resolutionsFromExtent",
               result |-> resolutionsFromExtent(call.extent, call.maxZoom, call.tileSize) ]
  /\ UNCHANGED <<nextId, defaultTileGrid, firstReturned, call>>

CallExtentFromProjection ==
  /\ Ready("extentFromProjection")
  /\ last' = [ op |-> "extentFromProjection",
               result |-> extentFromProjection(call.projection),
               again  |-> extentFromProjection(call.projection) ]
  /\ UNCHANGED <<nextId, defaultTileGrid, firstReturned, call>>

CreateForExtent ==
  /\ Ready("createForExtent")
  /\ nextId < MaxGrids
  /\ LET options == createForExtent(call.extent, call.maxZoom, call.tileSize, call.corner)
     IN  last' = [ op |-> "createForExtent", options |-> options,
                   tileGrid |-> TileGrid(nextId + 1, options) ]
  /\ nextId' = nextId + 1
  /\ UNCHANGED <<defaultTileGrid, firstReturned, call>>

CreateForProjection ==
  /\ Ready("createForProjection")
  /\ nextId < MaxGrids
  /\ LET options == createForProjection(call.projection, call.maxZoom, call.tileSize,
                                        call.corner)
     IN  last' = [ op |-> "createForProjection", options |-> options,
                   tileGrid |-> TileGrid(nextId + 1, options) ]
  /\ nextId' = nextId + 1
  /\ UNCHANGED <<defaultTileGrid, firstReturned, call>>

CreateXYZ ==
  /\ Ready("createXYZ")
  /\ nextId < MaxGrids
  /\ LET objects == createXYZ(call.options)
     IN  last' = [ op |-> "createXYZ", options |-> objects.options,
                   opt_options |-> objects.opt_options,
                   tileGrid |-> TileGrid(nextId + 1, objects.options) ]
  /\ nextId' = nextId + 1
  /\ UNCHANGED <<defaultTileGrid, firstReturned, call>>

WrapX ==
  /\ Ready("wrapX")
  /\ LET r == wrapX(call.tileGrid, call.tileCoord, call.projection)
     IN  last' = [ op |-> "wrapX", tileCoord |-> r.tileCoord, recomputed |-> r.recomputed,
                   center |-> r.center ]
  /\ UNCHANGED <<nextId, defaultTileGrid, firstReturned, call>>

GetForProjection ==
  /\ call.fn = "getForProjection"
  /\ \E projection \in Projections :
       LET r == getForProjection(defaultTileGrid[projection], projection, nextId + 1)
       IN  /\ nextId + r.constructed <= MaxGrids
           /\ nextId' = nextId + r.constructed
           /\ defaultTileGrid' = [defaultTileGrid EXCEPT ![projection] = r.slot]
           /\ firstReturned' =
                IF firstReturned[projection] = 0
                  THEN [firstReturned EXCEPT ![projection] = r.tileGrid.id]
                  ELSE firstReturned
           /\ last' = [op |-> "getForProjection", projection |-> projection,
                       tileGrid |-> r.tileGrid]
  /\ UNCHANGED call

Next ==
  \/ CallResolutionsFromExtent
  \/ CallExtentFromProjection
  \/ CreateForExtent
  \/ CreateForProjection
  \/ CreateXYZ
  \/ WrapX

Spec == Init /\ [][Next]_vars

NextCache == GetForProjection

SpecCache == InitCache /\ [][NextCache]_vars

---------------------------------------------------------------------------
(* Properties *)

\* what the latest wrapX call was made with
WrapCenter == getTileCoordCenter(call.tileGrid, call.tileCoord)
WrapExtent == extentFromProjection(call.projection)
InsideX(e, c) == RLe(e[1], c[1]) /\ RLe(c[1], e[3])
InsideY(e, c) == RLe(e[2], c[2]) /\ RLe(c[2], e[4])
OnBoundary(e, c) == c[1] = e[1] \/ c[1] = e[3] \/ c[2] = e[2] \/ c[2] = e[4]
RIsInt(a) == a[2] = 1

\* C1: every getForProjection call on a projection returns the grid the first
\* call on it returned, which stays in the projection's slot for good, and
\* two projections never share a grid instance.
C1_SameGridIffSameProjection ==
  /\ last.op = "getForProjection"
       => last.tileGrid.id = firstReturned[last.projection]
  /\ \A p \in Projections :
       /\ firstReturned[p] = 0 <=> defaultTileGrid[p] = <<>>
       /\ firstReturned[p] # 0 => defaultTileGrid[p][1].id = firstReturned[p]
  /\ \A p, q \in Projections :
       (p # q /\ firstReturned[p] # 0) => firstReturned[p] # firstReturned[q]

\* three grids are cached and the latest call was answered from the cache
C1_Witness ==
  /\ last.op = "getForProjection"
  /\ nextId = 3
  /\ last.tileGrid.id = 1
  /\ Cardinality({p \in Projections : firstReturned[p] # 0}) = 3

\* C2: for an extent of positive width and height, a maxZoom m and a tile size
\* (tw, th), the resolutions have length m + 1, start at
\* max(width / tw, height / th), halve at every level and strictly decrease.
C2_ResolutionPyramid ==
  ( /\ last.op = "resolutionsFromExtent"
    /\ call.maxZoom # <<>>
    /\ call.tileSize # <<>>
    /\ RLt(call.extent[1], call.extent[3])
    /\ RLt(call.extent[2], call.extent[4]) )
  => LET m == call.maxZoom[1]
         tw == RInt(call.tileSize[1])
         th == RInt(call.tileSize[Len(call.tileSize)])
         perTileX == RDiv(RSub(call.extent[3], call.extent[1]), tw)
         perTileY == RDiv(RSub(call.extent[4], call.extent[2]), th)
         r == last.result
     IN  /\ Len(r) = m + 1
         /\ RLe(perTileX, r[1]) /\ RLe(perTileY, r[1])
         /\ r[1] \in {perTileX, perTileY}
         /\ \A z \in 0..m : RMul(r[z + 1], RInt(Pow2(z))) = r[1]
         /\ \A z \in 1..m : RLt(r[z + 1], r[z])

\* the extent (0, 0, 1, 4) with tiles of 1 by 2: the height decides, 2, 1, 1/2
C2_Witness ==
  /\ last.op = "resolutionsFromExtent"
  /\ call.extent = Extent(0, 0, 1, 4)
  /\ call.tileSize = <<1, 2>>
  /\ call.maxZoom = <<2>>
  /\ last.result = <<RInt(2), RInt(1), Rat(1, 2)>>

\* C3 as claimed: a tile whose center is outside the projection extent only
\* horizontally is wrapped to a tile of the same zoom whose center is inside.
C3_WrappedCenterInside ==
  ( /\ last.op = "wrapX"
    /\ InsideY(WrapExtent, WrapCenter)
    /\ ~InsideX(WrapExtent, WrapCenter) )
  => /\ last.tileCoord[1] = call.tileCoord[1]
     /\ containsCoordinate(WrapExtent, getTileCoordCenter(call.tileGrid, last.tileCoord))

\* the grid's columns at the call's zoom tile the projection extent's width:
\* the extent's left edge is a column edge and the world is a whole number of
\* columns wide
ColumnsTileWorld ==
  LET span == TileSpan(call.tileGrid, call.tileCoord[1])[1]
  IN  /\ RIsInt(RDiv(RSub(WrapExtent[1], call.tileGrid.origin[1]), span))
      /\ RIsInt(RDiv(getWidth(WrapExtent), span))

\* C3, amended: the same, for a grid whose columns tile the world.
C3_WrappedCenterInsideAligned ==
  ( /\ last.op = "wrapX"
    /\ ColumnsTileWorld
    /\ InsideY(WrapExtent, WrapCenter)
    /\ ~InsideX(WrapExtent, WrapCenter) )
  => /\ last.tileCoord[1] = call.tileCoord[1]
     /\ containsCoordinate(WrapExtent, getTileCoordCenter(call.tileGrid, last.tileCoord))

\* a tile more than one world to the left of the extent, brought back
C3_Witness ==
  /\ last.op = "wrapX"
  /\ ColumnsTileWorld
  /\ InsideY(WrapExtent, WrapCenter)
  /\ RLt(RAdd(WrapCenter[1], getWidth(WrapExtent)), WrapExtent[1])
  /\ last.recomputed
  /\ last.tileCoord[2] # call.tileCoord[2]

\* C4: a tile whose center is within the projection extent, its boundary
\* included, comes back as it is, without being recomputed.
C4_InsideUnchanged ==
  ( /\ last.op = "wrapX"
    /\ InsideX(WrapExtent, WrapCenter)
    /\ InsideY(WrapExtent, WrapCenter) )
  => /\ last.tileCoord = call.tileCoord
     /\ ~last.recomputed

\* a center on the boundary of the extent
C4_Witness ==
  /\ last.op = "wrapX"
  /\ InsideX(WrapExtent, WrapCenter)
  /\ InsideY(WrapExtent, WrapCenter)
  /\ OnBoundary(WrapExtent, WrapCenter)
  /\ ~last.recomputed

\* C5: extentFromProjection returns the declared extent when there is one,
\* else the square (-h, -h, h, h) with h = 180 * metersPerDegree /
\* metersPerUnit, and a second call returns an equal extent.
C5_ExtentFromProjection ==
  last.op = "extentFromProjection"
  => LET declared == ProjectionRegistry[call.projection].extent
         mpu == ProjectionRegistry[call.projection].metersPerUnit
         r == last.result
     IN  /\ declared # <<>> => r = declared[1]
         /\ declared = <<>> =>
              /\ RMul(r[3], mpu) = RInt(180 * MetersPerDegree)
              /\ r[4] = r[3]
              /\ r[1] = RNeg(r[3])
              /\ r[2] = RNeg(r[3])
         /\ last.again = r

\* a projection without an extent, 72 degrees to the unit: h = 5 / 2
C5_Witness ==
  /\ last.op = "extentFromProjection"
  /\ ProjectionRegistry[call.projection].extent = <<>>
  /\ last.result[3] = Rat(5, 2)

\* the corner of an extent, spelled out
CornerPoint(e, c) ==
  << IF c \in {"bottom-left", "top-left"} THEN e[1] ELSE e[3],
     IF c \in {"bottom-left", "bottom-right"} THEN e[2] ELSE e[4] >>

\* C6: createForExtent(E, m, ts, c) constructs a grid with extent E, origin
\* the corner c of E (top-left when c is omitted), resolutions
\* resolutionsFromExtent(E, m, ts) and tileSize ts as passed.
C6_CreateForExtent ==
  last.op = "createForExtent"
  => LET o == last.options
         c == IF call.corner = <<>> THEN "top-left" ELSE call.corner[1]
     IN  /\ o.extent = call.extent
         /\ o.origin = CornerPoint(call.extent, c)
         /\ o.resolutions = resolutionsFromExtent(call.extent, call.maxZoom, call.tileSize)
         /\ o.tileSize = call.tileSize
         /\ DOMAIN o = {"extent", "origin", "resolutions", "tileSize"}
         /\ last.tileGrid.extent = call.extent
         /\ last.tileGrid.origin = o.origin
         /\ last.tileGrid.resolutions = o.resolutions

\* no corner and no tile size passed: origin top-left, tileSize still unset
C6_Witness ==
  /\ last.op = "createForExtent"
  /\ call.corner = <<>>
  /\ call.tileSize = <<>>
  /\ call.extent = Extent(-3, -1, 2, 1)
  /\ last.options.origin = <<RInt(-3), RInt(1)>>
  /\ last.options.tileSize = <<>>

\* C7 as claimed: createForProjection without a corner puts the origin at the
\* bottom-left corner of the projection's extent.
C7_DefaultCornerBottomLeft ==
  (last.op = "createForProjection" /\ call.corner = <<>>)
  => last.options.origin = CornerPoint(extentFromProjection(call.projection), "bottom-left")

\* C8: createXYZ hands TileGrid the resolutions of the effective extent (the
\* one supplied, else that of EPSG:3857), the maxZoom option and the tileSize
\* option, and no maxZoom; without options the grid has the EPSG:3857 extent
\* and DEFAULT_MAX_ZOOM + 1 resolutions.
C8_CreateXYZ ==
  last.op = "createXYZ"
  => LET given == IF call.options = <<>> THEN EmptyObject ELSE call.options[1]
         effective == IF "extent" \in DOMAIN given
                        THEN given["extent"]
                        ELSE ProjectionRegistry["EPSG3857"].extent[1]
         o == last.options
     IN  /\ o["extent"] = effective
         /\ o["resolutions"] =
              resolutionsFromExtent(effective, Prop(given, "maxZoom"), TileSizeProp(given))
         /\ "maxZoom" \notin DOMAIN o
         /\ DOMAIN given = {} =>
              /\ last.tileGrid.extent = ProjectionRegistry["EPSG3857"].extent[1]
              /\ Len(last.tileGrid.resolutions) = DEFAULT_MAX_ZOOM + 1

\* createXYZ({maxZoom: 1}): the extent is defaulted, two resolutions, no maxZoom
C8_Witness ==
  /\ last.op = "createXYZ"
  /\ call.options = <<[maxZoom |-> 1]>>
  /\ Len(last.options["resolutions"]) = 2
  /\ last.options["extent"] = Extent(-8, -8, 8, 8)

\* C9: createXYZ leaves the caller's options object as it was.
C9_OptionsNotMutated ==
  (last.op = "createXYZ" /\ call.options # <<>>)
  => last.opt_options = call.options[1]

\* the caller passed maxZoom and no extent: all three writes happened, on the copy
C9_Witness ==
  /\ last.op = "createXYZ"
  /\ call.options # <<>>
  /\ DOMAIN call.options[1] = {"maxZoom"}
  /\ DOMAIN last.options = {"extent", "resolutions"}
  /\ DOMAIN last.opt_options = {"maxZoom"}

\* C10: wrapX returns the zoom and the row it was given; only the column may
\* change, also when the center is outside vertically.
C10_ZoomAndRowKept ==
  last.op = "wrapX"
  => /\ last.tileCoord[1] = call.tileCoord[1]
     /\ last.tileCoord[3] = call.tileCoord[3]

\* a center above or below the extent and left or right of it: the column
\* changes, the row does not
C10_Witness ==
  /\ last.op = "wrapX"
  /\ ~InsideY(WrapExtent, WrapCenter)
  /\ ~InsideX(WrapExtent, WrapCenter)
  /\ last.recomputed
  /\ last.tileCoord[2] # call.tileCoord[2]
  /\ last.tileCoord[3] = call.tileCoord[3]

====
